---- MODULE Spec2Model ----
(***************************************************************************)
(* A model of scanpy/plotting/_tools/scatterplots.py: the spatial overlay  *)
(* resolvers of spatial(), the range resolver _get_vmin_vmax inside the    *)
(* panel loop of embedding(), and the coordinate extractor                 *)
(* _get_data_points with the draw step of embedding(), the scatter calls   *)
(* of each panel (draw order, sizes, outline, legend), the panel grid and  *)
(* the category palette.                                                   *)
(*                                                                         *)
(* Python values are tagged records: None, Float(n), Str(s), ...  Real       *)
(* numbers are fixed-point integers: scale factors in thousandths.         *)
(* An exception is a record [type, at]; NoExc means none was raised.       *)
(***************************************************************************)
EXTENDS Integers, Sequences, FiniteSets, TLC

VARIABLES
  \* ---- spatial(): the resolver chain, lines 843-848
  uns,             \* adata.uns
  spatial_args,    \* the parameters spatial() was called with
  library_id,      \* local of spatial() after _check_spatial_data
  spatial_data,    \* local of spatial() after _check_spatial_data
  img,             \* local of spatial() after _check_img
  img_key,         \* local of spatial() after _check_img
  spot_size,       \* local of spatial() after _check_spot_size
  scale_factor,    \* local of spatial() after _check_scale_factor
  spatial_pc,      \* position inside spatial()
  spatial_exc,     \* the exception that ended spatial(), or NoExc
  \* ---- embedding(): the panel loop with the range resolver, lines 200-297
  color,           \* local of embedding(): the list of annotations (line 160)
  n_components,    \* len(components_list) (lines 186-194)
  vmin,            \* local of embedding(): vmin as a sequence (lines 201-204)
  vmax,            \* local of embedding(): vmax as a sequence (lines 201-204)
  product_pos,     \* position of itertools.product(color, idx_components)
  count,           \* enumerate()'s counter (line 235)
  panels,          \* what each finished panel was drawn with
  logg,            \* the errors logged so far
  emb_pc,          \* position inside embedding()
  emb_exc,         \* the exception that ended embedding(), or NoExc
  \* ---- embedding(): the coordinates, lines 165-198, 267 and 299-389
  obsm,            \* adata.obsm: the coordinate tables
  points_args,     \* basis, projection, components, scale_factor as given
  data_points,     \* local of embedding(): the coordinate slices (line 167)
  components_list, \* local of embedding(): the selections (lines 167-194)
  component_idx,   \* the loop variable of line 235
  drawn,           \* what each finished panel was drawn with
  points_log,      \* the warnings logged so far
  points_pc,       \* position inside embedding()
  points_exc,      \* the exception that ended embedding(), or NoExc
  \* ---- embedding(): the scatter calls of each panel, lines 206-267, 299-429
  obs,             \* adata.obs: the annotation columns
  scatter_args,    \* color, sort_order, size, add_outline, ... as given
  size,            \* local of embedding(): the marker size (lines 206-221)
  kwargs,          \* local of embedding(): the keyword arguments of scatter
  scatter_count,   \* enumerate()'s counter (line 235)
  scatter_calls,   \* the calls of ax.scatter made so far
  legend_calls,    \* the legend and colorbar calls made so far
  scatter_pc,      \* position inside embedding()
  \* ---- _get_palette: the palette kept in adata.uns, lines 1094-1106
  categories,      \* the categories of the annotation 'louvain'
  uns_colors,      \* adata.uns restricted to the '<key>_colors' entries
  palette_args,    \* the palette the resolution is called with
  resolutions,     \* what each resolution called and returned
  palette_pc,      \* position of the caller of _get_palette
  \* ---- embedding(): the layout, lines 176-198, and _panel_grid
  layout_args,     \* color, components_list, ncols and ax as given
  grid,            \* local of embedding(): the grid of panels, or None
  layout_pc,       \* position inside embedding()
  layout_exc       \* the exception that ended embedding(), or NoExc

pointsVars == <<obsm, points_args, data_points, components_list, component_idx,
                drawn, points_log, points_pc, points_exc>>

rangeVars == <<color, n_components, vmin, vmax, product_pos, count, panels,
               logg, emb_pc, emb_exc>>

spatialVars == <<uns, spatial_args, library_id, spatial_data, img, img_key,
                 spot_size, scale_factor, spatial_pc, spatial_exc>>

scatterVars == <<obs, scatter_args, size, kwargs, scatter_count, scatter_calls,
                 legend_calls, scatter_pc>>

paletteVars == <<categories, uns_colors, palette_args, resolutions, palette_pc>>

layoutVars == <<layout_args, grid, layout_pc, layout_exc>>

vars == <<spatialVars, rangeVars, pointsVars, scatterVars, paletteVars, layoutVars>>

\* what the actions of one part leave alone
notSpatial == <<rangeVars, pointsVars, scatterVars, paletteVars, layoutVars>>

notRange == <<spatialVars, pointsVars, scatterVars, paletteVars, layoutVars>>

notPoints == <<spatialVars, rangeVars, scatterVars, paletteVars, layoutVars>>

\* the scatter calls read and write the palette kept in adata.uns
notScatter == <<spatialVars, rangeVars, pointsVars, layoutVars>>

notPalette == <<spatialVars, rangeVars, pointsVars, scatterVars, layoutVars>>

notLayout == <<spatialVars, rangeVars, pointsVars, scatterVars, paletteVars>>

-----------------------------------------------------------------------------
(* Python values *)

None == [t |-> "None"]

_empty == [t |-> "Empty"]

\* a finite float, fixed-point
Float(n) == [t |-> "float", v |-> n, special |-> "finite"]

NaN == [t |-> "float", v |-> 0, special |-> "nan"]

Inf == [t |-> "float", v |-> 0, special |-> "inf"]

PyInt(n) == [t |-> "int", v |-> n]

Str(s) == [t |-> "str", s |-> s]

NoExc == [type |-> "none", at |-> "none", info |-> {}]

Exc(type, at) == [type |-> type, at |-> at, info |-> {}]

\* an exception whose message lists `info`
ExcListing(type, at, info) == [type |-> type, at |-> at, info |-> info]

\* str() of a value inside an f-string
format(v) ==
  IF v.t = "str" THEN v.s
  ELSE IF v.t = "Empty" THEN "Empty.token"
  ELSE "None"

\* the empty mapping {}
EmptyMapping == [k \in {} |-> None]

-----------------------------------------------------------------------------
(* Spatial metadata: .uns['spatial'][library] = {images, scalefactors} *)

LibraryIds == {"A", "B"}

ImageKeys == {"hires", "lowres"}

ndarray(id, grey) == [t |-> "ndarray", id |-> id, grey |-> grey]

\* the scalefactors of a library as read from a Visium run: both per-resolution
\* scale factors and the spot diameter
scalefactors_of(lib) ==
  [k \in {"tissue_hires_scalef", "tissue_lowres_scalef", "spot_diameter_fullres"} |->
     CASE k = "tissue_hires_scalef"  -> Float(IF lib = "A" THEN 170 ELSE 200)
       [] k = "tissue_lowres_scalef" -> Float(IF lib = "A" THEN 51 ELSE 60)
       [] OTHER                      -> Float(IF lib = "A" THEN 89000 ELSE 144000)]

library_of(lib, keys) ==
  [images       |-> [k \in keys |-> ndarray(lib \o "_" \o k, FALSE)],
   scalefactors |-> scalefactors_of(lib)]

\* every .uns['spatial'] mapping: any subset of the libraries, each with any
\* subset of the image resolutions
SpatialMappings ==
  UNION { { [l \in libs |-> library_of(l, ks[l])] : ks \in [libs -> SUBSET ImageKeys] }
          : libs \in SUBSET LibraryIds }

\* adata.uns, with or without the 'spatial' entry
UnsValues ==
  {EmptyMapping} \cup { [k \in {"spatial"} |-> m] : m \in SpatialMappings }

\* dict.get(key, default)
get(d, key, default) == IF key \in DOMAIN d THEN d[key] ELSE default

-----------------------------------------------------------------------------
(* The resolvers.  Each returns [ret |-> <<...>> or a value, exc |-> ...]. *)

\* 1.0, in thousandths
DefaultScaleFactor == 1000

\* mutant: the metadata's spot diameter overrides an explicit spot size
_check_spot_size_metadata_wins(p_spatial_data, p_spot_size) ==
  IF p_spatial_data = None /\ p_spot_size = None
  THEN [ret |-> None, exc |-> Exc("ValueError", "_check_spot_size")]
  ELSE IF p_spatial_data # None
  THEN [ret |-> p_spatial_data.scalefactors["spot_diameter_fullres"], exc |-> NoExc]
  ELSE [ret |-> p_spot_size, exc |-> NoExc]

_check_spot_size(p_spatial_data, p_spot_size) ==
  IF p_spatial_data = None /\ p_spot_size = None
  THEN [ret |-> None, exc |-> Exc("ValueError", "_check_spot_size")]
  ELSE IF p_spot_size = None
  THEN [ret |-> p_spatial_data.scalefactors["spot_diameter_fullres"], exc |-> NoExc]
  ELSE [ret |-> p_spot_size, exc |-> NoExc]

_check_scale_factor(p_spatial_data, p_img_key, p_scale_factor) ==
  IF p_scale_factor # None
  THEN [ret |-> p_scale_factor, exc |-> NoExc]
  ELSE IF p_spatial_data # None /\ p_img_key # None
  THEN LET key == "tissue_" \o format(p_img_key) \o "_scalef"
       IN  IF key \in DOMAIN p_spatial_data.scalefactors
           THEN [ret |-> p_spatial_data.scalefactors[key], exc |-> NoExc]
           ELSE [ret |-> None, exc |-> Exc("KeyError", "_check_scale_factor")]
  ELSE [ret |-> Float(DefaultScaleFactor), exc |-> NoExc]

\* mutant: with several libraries the first one is taken instead of raising
_check_spatial_data_takes_first(p_uns, p_library_id) ==
  LET spatial_mapping == get(p_uns, "spatial", EmptyMapping)
      n == Cardinality(DOMAIN spatial_mapping)
      lib == IF p_library_id = _empty
             THEN IF n >= 1
                  THEN Str(CHOOSE l \in DOMAIN spatial_mapping : TRUE)
                  ELSE None
             ELSE p_library_id
  IN  IF lib # None
      THEN IF lib.s \in DOMAIN spatial_mapping
           THEN [ret |-> <<lib, spatial_mapping[lib.s]>>, exc |-> NoExc]
           ELSE [ret |-> <<None, None>>, exc |-> Exc("KeyError", "_check_spatial_data")]
      ELSE [ret |-> <<lib, None>>, exc |-> NoExc]

_check_spatial_data(p_uns, p_library_id) ==
  LET spatial_mapping == get(p_uns, "spatial", EmptyMapping)
      n == Cardinality(DOMAIN spatial_mapping)
      \* lines 1203-1212
      auto ==
        IF p_library_id = _empty
        THEN IF n > 1
             THEN [lib |-> None,
                   exc |-> ExcListing("ValueError", "_check_spatial_data",
                                      DOMAIN spatial_mapping)]
             ELSE IF n = 1
             THEN [lib |-> Str(CHOOSE l \in DOMAIN spatial_mapping : TRUE), exc |-> NoExc]
             ELSE [lib |-> None, exc |-> NoExc]
        ELSE [lib |-> p_library_id, exc |-> NoExc]
  IN  IF auto.exc # NoExc
      THEN [ret |-> <<None, None>>, exc |-> auto.exc]
      ELSE IF auto.lib # None
      THEN IF auto.lib.s \in DOMAIN spatial_mapping
           THEN [ret |-> <<auto.lib, spatial_mapping[auto.lib.s]>>, exc |-> NoExc]
           ELSE [ret |-> <<None, None>>, exc |-> Exc("KeyError", "_check_spatial_data")]
      ELSE [ret |-> <<auto.lib, None>>, exc |-> NoExc]

_check_img(p_spatial_data, p_img, p_img_key, bw) ==
  LET \* lines 1229-1232: next() over the preference list, no default given
      present == IF p_spatial_data # None THEN DOMAIN p_spatial_data.images ELSE {}
      first == IF p_img = None /\ p_spatial_data # None /\ p_img_key = _empty
               THEN IF "hires" \in present THEN [key |-> Str("hires"), exc |-> NoExc]
                    ELSE IF "lowres" \in present THEN [key |-> Str("lowres"), exc |-> NoExc]
                    ELSE [key |-> p_img_key, exc |-> Exc("StopIteration", "_check_img")]
               ELSE [key |-> p_img_key, exc |-> NoExc]
      \* lines 1233-1234
      second == IF p_img = None /\ p_spatial_data # None /\ first.key # None
                THEN IF first.key.t = "str" /\ first.key.s \in present
                     THEN [img |-> p_spatial_data.images[first.key.s], exc |-> NoExc]
                     ELSE [img |-> p_img, exc |-> Exc("KeyError", "_check_img")]
                ELSE [img |-> p_img, exc |-> NoExc]
  IN  IF first.exc # NoExc
      THEN [ret |-> <<None, None>>, exc |-> first.exc]
      ELSE IF second.exc # NoExc
      THEN [ret |-> <<None, None>>, exc |-> second.exc]
      \* lines 1235-1236: img[..., :3] on whatever img is
      ELSE IF bw
      THEN IF second.img = None
           THEN [ret |-> <<None, None>>, exc |-> Exc("TypeError", "_check_img")]
           ELSE [ret |-> <<ndarray(second.img.id, TRUE), first.key>>, exc |-> NoExc]
      ELSE [ret |-> <<second.img, first.key>>, exc |-> NoExc]

-----------------------------------------------------------------------------
(* spatial(): the call and its four resolver steps *)

LibraryIdArgs == {_empty, None} \cup { Str(l) : l \in LibraryIds }

ImgArgs == {None, ndarray("user", FALSE)}

ImgKeyArgs == {_empty, None} \cup { Str(k) : k \in ImageKeys }

SpotSizeArgs == {None, Float(7000)}

ScaleFactorArgs == {None, Float(3000)}

SpatialInit ==
  /\ uns \in UnsValues
  /\ spatial_args = None
  /\ library_id = None
  /\ spatial_data = None
  /\ img = None
  /\ img_key = None
  /\ spot_size = None
  /\ scale_factor = None
  /\ spatial_pc = "idle"
  /\ spatial_exc = NoExc

spatial_call ==
  /\ spatial_pc = "idle"
  /\ \E a_lib \in LibraryIdArgs, a_img \in ImgArgs, a_key \in ImgKeyArgs,
        a_bw \in BOOLEAN, a_spot \in SpotSizeArgs, a_scale \in ScaleFactorArgs :
       spatial_args' = [t |-> "args", library_id |-> a_lib, img |-> a_img,
                        img_key |-> a_key, bw |-> a_bw, spot_size |-> a_spot,
                        scale_factor |-> a_scale]
  /\ spatial_pc' = "_check_spatial_data"
  /\ UNCHANGED <<uns, library_id, spatial_data, img, img_key, spot_size,
                 scale_factor, spatial_exc>>
  /\ UNCHANGED notSpatial

\* line 843
spatial_check_spatial_data ==
  /\ spatial_pc = "_check_spatial_data"
  /\ LET r == _check_spatial_data(uns, spatial_args.library_id)
     IN  /\ spatial_exc' = r.exc
         /\ spatial_pc' = IF r.exc = NoExc THEN "_check_img" ELSE "raised"
         /\ library_id' = r.ret[1]
         /\ spatial_data' = r.ret[2]
  /\ UNCHANGED <<uns, spatial_args, img, img_key, spot_size, scale_factor>>
  /\ UNCHANGED notSpatial

\* line 844
spatial_check_img ==
  /\ spatial_pc = "_check_img"
  /\ LET r == _check_img(spatial_data, spatial_args.img, spatial_args.img_key,
                         spatial_args.bw)
     IN  /\ spatial_exc' = r.exc
         /\ spatial_pc' = IF r.exc = NoExc THEN "_check_spot_size" ELSE "raised"
         /\ img' = r.ret[1]
         /\ img_key' = r.ret[2]
  /\ UNCHANGED <<uns, spatial_args, library_id, spatial_data, spot_size, scale_factor>>
  /\ UNCHANGED notSpatial

\* line 845
spatial_check_spot_size ==
  /\ spatial_pc = "_check_spot_size"
  /\ LET r == _check_spot_size(spatial_data, spatial_args.spot_size)
     IN  /\ spatial_exc' = r.exc
         /\ spatial_pc' = IF r.exc = NoExc THEN "_check_scale_factor" ELSE "raised"
         /\ spot_size' = r.ret
  /\ UNCHANGED <<uns, spatial_args, library_id, spatial_data, img, img_key, scale_factor>>
  /\ UNCHANGED notSpatial

\* lines 846-848
spatial_check_scale_factor ==
  /\ spatial_pc = "_check_scale_factor"
  /\ LET r == _check_scale_factor(spatial_data, img_key, spatial_args.scale_factor)
     IN  /\ spatial_exc' = r.exc
         /\ spatial_pc' = IF r.exc = NoExc THEN "resolved" ELSE "raised"
         /\ scale_factor' = r.ret
  /\ UNCHANGED <<uns, spatial_args, library_id, spatial_data, img, img_key, spot_size>>
  /\ UNCHANGED notSpatial

-----------------------------------------------------------------------------
(* The annotated data: per-sample annotation columns (adata.obs_vector) *)

\* values are in hundredths
obs_vector(name) ==
  CASE name = "gene1"   -> <<Float(100), Float(300), Float(200)>>
    [] name = "gene2"   -> <<NaN, Float(500), Float(100)>>
    [] name = "louvain" -> <<Str("c1"), Str("c2"), Str("c1")>>

Annotations == {"gene1", "gene2", "louvain"}

is_categorical_dtype(name) == name = "louvain"

-----------------------------------------------------------------------------
(* Strings as character sequences, and float() of them *)

StrOf(cs) == [t |-> "str", cs |-> cs]

IsDigit(c) == c \in {"0", "1", "2", "3", "4", "5", "6", "7", "8", "9"}

DigitVal(c) ==
  CASE c = "0" -> 0 [] c = "1" -> 1 [] c = "2" -> 2 [] c = "3" -> 3 [] c = "4" -> 4
    [] c = "5" -> 5 [] c = "6" -> 6 [] c = "7" -> 7 [] c = "8" -> 8 [] c = "9" -> 9

\* float(s) succeeds on a decimal literal: digits with at most one point and
\* at least one digit
float_parses(cs) ==
  /\ \A i \in DOMAIN cs : IsDigit(cs[i]) \/ cs[i] = "."
  /\ Cardinality({i \in DOMAIN cs : cs[i] = "."}) <= 1
  /\ \E i \in DOMAIN cs : IsDigit(cs[i])

RECURSIVE digits_value(_)
digits_value(cs) ==
  IF cs = <<>> THEN 0
  ELSE 10 * digits_value(SubSeq(cs, 1, Len(cs) - 1)) + DigitVal(cs[Len(cs)])

\* the value of float(s) in hundredths, for a literal with at most two
\* decimals
float_value(cs) ==
  LET points == {i \in DOMAIN cs : cs[i] = "."}
      dot == IF points = {} THEN Len(cs) + 1 ELSE CHOOSE i \in points : TRUE
      whole == SubSeq(cs, 1, dot - 1)
      frac == SubSeq(cs, dot + 1, Len(cs))
      frac2 == IF Len(frac) = 0 THEN <<"0", "0">>
               ELSE IF Len(frac) = 1 THEN <<frac[1], "0">>
               ELSE SubSeq(frac, 1, 2)
  IN  100 * digits_value(whole) + digits_value(frac2)

-----------------------------------------------------------------------------
(* Range bounds (VMinMax, line 40) and the functions a caller may pass *)

Callable(f) == [t |-> "callable", f |-> f]

\* a value that is neither a number, a string nor a callable: the list [1, 2]
ListObject == [t |-> "list", items |-> <<PyInt(1), PyInt(2)>>]

isnan(x) == x.t = "float" /\ x.special = "nan"

RECURSIVE seq_max(_)
seq_max(s) ==
  IF Len(s) = 1 THEN s[1].v
  ELSE LET m == seq_max(Tail(s)) IN IF s[1].v > m THEN s[1].v ELSE m

\* v_value(color_vector) for the functions of the model: numpy.max (NaN if
\* any entry is NaN), len, a function returning math.inf, and str
call(f, color_vector) ==
  CASE f = "np.max" ->
         IF \E i \in DOMAIN color_vector : isnan(color_vector[i])
         THEN NaN ELSE Float(seq_max(color_vector))
    [] f = "len"    -> PyInt(Len(color_vector))
    [] f = "inf"    -> Inf
    [] f = "str"    -> StrOf(<<"[", "]">>)

\* numpy.nanpercentile(color_vector, q), linear interpolation; q and the
\* result in hundredths (the interpolated value is cut to hundredths)
nanpercentile(color_vector, q) ==
  LET finite == SelectSeq(color_vector, LAMBDA x : ~isnan(x))
      sorted == SortSeq(finite, LAMBDA a, b : a.v < b.v)
      n == Len(sorted)
      pos == q * (n - 1)
      lo == pos \div 10000
      rem == pos % 10000
  IN  IF n = 0 THEN NaN
      ELSE IF rem = 0 THEN Float(sorted[lo + 1].v)
      ELSE Float(sorted[lo + 1].v
                 + ((sorted[lo + 2].v - sorted[lo + 1].v) * rem) \div 10000)

LogError(v_name, what, index) ==
  [level |-> "error", v_name |-> v_name, what |-> what, plot |-> index + 1]

-----------------------------------------------------------------------------
(* _get_vmin_vmax, lines 466-547 *)

\* mutant: the IndexError of v[index] is not caught
select_v_value_uncaught(v_name, v, index) ==
  IF Len(v) = 1
  THEN [v_value |-> v[1], log |-> <<>>, exc |-> NoExc]
  ELSE IF index + 1 \in DOMAIN v
  THEN [v_value |-> v[index + 1], log |-> <<>>, exc |-> NoExc]
  ELSE [v_value |-> None, log |-> <<>>,
        exc |-> ExcListing("IndexError", "_get_vmin_vmax", {v_name})]

\* lines 500-514: the bound of this panel
select_v_value(v_name, v, index) ==
  IF Len(v) = 1
  THEN [v_value |-> v[1], log |-> <<>>, exc |-> NoExc]
  ELSE IF index + 1 \in DOMAIN v
  THEN [v_value |-> v[index + 1], log |-> <<>>, exc |-> NoExc]
  ELSE [v_value |-> None, log |-> <<LogError(v_name, "index", index)>>,
        exc |-> NoExc]

\* lines 516-545: the selected bound interpreted
interpret_v_value(v_name, v_value, index, color_vector) ==
  LET Raise(type, log) ==
        [v_value |-> None, log |-> log,
         exc |-> ExcListing(type, "_get_vmin_vmax", {v_name})]
      Return(x, log) == [v_value |-> x, log |-> log, exc |-> NoExc]
  IN  IF v_value = None THEN Return(None, <<>>)
      ELSE IF v_value.t = "str" /\ v_value.cs # <<>> /\ v_value.cs[1] = "p"
      THEN \* lines 517-526
           LET rest == Tail(v_value.cs)
           IN  IF ~float_parses(rest)
               THEN \* the error is logged, then line 526 calls float() again
                    Raise("ValueError", <<LogError(v_name, "percentile", index)>>)
               ELSE IF float_value(rest) > 10000
               THEN \* numpy: percentiles must be in the range [0, 100]
                    Raise("ValueError", <<>>)
               ELSE Return(nanpercentile(color_vector, float_value(rest)), <<>>)
      ELSE IF v_value.t = "callable"
      THEN \* lines 527-535
           LET r == call(v_value.f, color_vector)
           IN  IF r.t # "float"
               THEN Return(None, <<LogError(v_name, "function", index)>>)
               ELSE Return(r, <<>>)
      ELSE \* lines 536-545: float(v_value), only ValueError is caught
           IF v_value.t \in {"int", "float"} THEN Return(v_value, <<>>)
           ELSE IF v_value.t = "str"
           THEN IF float_parses(v_value.cs) THEN Return(v_value, <<>>)
                ELSE Return(None, <<LogError(v_name, "literal", index)>>)
           ELSE Raise("TypeError", <<>>)

\* one round of the loop of line 499
resolve_bound(v_name, v, index, color_vector) ==
  LET sel == select_v_value(v_name, v, index)
  IN  IF sel.exc # NoExc THEN sel
      ELSE LET r == interpret_v_value(v_name, sel.v_value, index, color_vector)
           IN  [v_value |-> r.v_value, log |-> sel.log \o r.log, exc |-> r.exc]

_get_vmin_vmax(p_vmin, p_vmax, index, color_vector) ==
  LET lower == resolve_bound("vmin", p_vmin, index, color_vector)
      upper == resolve_bound("vmax", p_vmax, index, color_vector)
  IN  IF lower.exc # NoExc
      THEN [out |-> <<None, None>>, log |-> lower.log, exc |-> lower.exc]
      ELSE IF upper.exc # NoExc
      THEN [out |-> <<None, None>>, log |-> lower.log \o upper.log, exc |-> upper.exc]
      ELSE [out |-> <<lower.v_value, upper.v_value>>,
            log |-> lower.log \o upper.log, exc |-> NoExc]

-----------------------------------------------------------------------------
(* embedding(): the call and the panel loop, as far as the range bounds go *)

MaxColor == 2

MaxComponents == 2

MaxBounds == 2

SeqsUpTo(S, n) == UNION { [1..k -> S] : k \in 0..n }

\* the values one bound can be given as
VMinMaxValues ==
  {None, PyInt(2), ListObject}
  \cup { StrOf(cs) : cs \in {<<"p", "5", "0">>, <<"p">>, <<"p", "a">>,
                             <<"2", ".", "5">>, <<"a">>} }
  \cup { Callable(f) : f \in {"np.max", "len", "inf", "str"} }

\* the values the entries of a vmin or vmax list are drawn from
VMinMaxListValues == {None, PyInt(2), StrOf(<<"p">>)}

\* the vmin and vmax arguments: one value of any kind, or a list of values
VMinMaxArgs ==
  VMinMaxValues
  \cup { [t |-> "sequence", items |-> s] : s \in SeqsUpTo(VMinMaxListValues, MaxBounds) }

\* lines 201-204: a string or a non-sequence becomes a list of one
as_sequence(v) == IF v.t = "sequence" THEN v.items ELSE <<v>>

\* itertools.product(color, idx_components): the position after <<i, j>>
product_next(pos, n_color, n_comp) ==
  IF pos[2] + 1 < n_comp THEN <<pos[1], pos[2] + 1>> ELSE <<pos[1] + 1, 0>>

product_exhausted(pos, n_color, n_comp) == pos[1] >= n_color \/ pos[2] >= n_comp

RangeIdle ==
  /\ color = <<>>
  /\ n_components = 0
  /\ vmin = <<>>
  /\ vmax = <<>>
  /\ product_pos = <<0, 0>>
  /\ count = 0
  /\ panels = <<>>
  /\ logg = <<>>
  /\ emb_pc = "idle"
  /\ emb_exc = NoExc

\* lines 49-234 as far as the panel loop needs them
embedding_call ==
  /\ emb_pc = "idle"
  /\ \E a_color \in SeqsUpTo(Annotations, MaxColor) \ {<<>>},
        a_comp \in 1..MaxComponents,
        a_vmin \in VMinMaxArgs, a_vmax \in VMinMaxArgs :
       /\ color' = a_color
       /\ n_components' = a_comp
       /\ vmin' = as_sequence(a_vmin)
       /\ vmax' = as_sequence(a_vmax)
  /\ product_pos' = <<0, 0>>
  /\ count' = 0
  /\ emb_pc' = "loop"
  /\ UNCHANGED <<panels, logg, emb_exc>>
  /\ UNCHANGED notRange

\* one pass of the loop body, lines 235-429
embedding_panel ==
  /\ emb_pc = "loop"
  /\ ~product_exhausted(product_pos, Len(color), n_components)
  /\ LET value_to_plot == color[product_pos[1] + 1]
         comp_idx == product_pos[2]
         categorical == is_categorical_dtype(value_to_plot)
         color_vector == obs_vector(value_to_plot)
         \* lines 292-297
         r == IF categorical
              THEN [out |-> <<None, None>>, log |-> <<>>, exc |-> NoExc]
              ELSE _get_vmin_vmax(vmin, vmax, count, color_vector)
     IN  /\ logg' = logg \o r.log
         /\ emb_exc' = r.exc
         /\ IF r.exc # NoExc
            THEN /\ emb_pc' = "raised"
                 /\ UNCHANGED <<panels, product_pos, count>>
            ELSE /\ panels' = Append(panels,
                       [count |-> count, value_to_plot |-> value_to_plot,
                        component_idx |-> comp_idx,
                        categorical |-> categorical,
                        vmin |-> r.out[1], vmax |-> r.out[2]])
                 /\ product_pos' = product_next(product_pos, Len(color), n_components)
                 /\ count' = count + 1
                 /\ emb_pc' = "loop"
  /\ UNCHANGED <<color, n_components, vmin, vmax>>
  /\ UNCHANGED notRange

\* lines 431-436: the loop is over
embedding_return ==
  /\ emb_pc = "loop"
  /\ product_exhausted(product_pos, Len(color), n_components)
  /\ emb_pc' = "done"
  /\ UNCHANGED <<color, n_components, vmin, vmax, product_pos, count, panels,
                 logg, emb_exc>>
  /\ UNCHANGED notRange

-----------------------------------------------------------------------------
(* Component strings: str.split(','), str.strip(), int() and ",".join *)

Digits == <<"0", "1", "2", "3", "4", "5", "6", "7", "8", "9">>

RECURSIVE str_nat(_)
str_nat(n) ==
  IF n < 10 THEN <<Digits[n + 1]>>
  ELSE str_nat(n \div 10) \o <<Digits[(n % 10) + 1]>>

\* str(n) of an int
str_int(n) == IF n < 0 THEN <<"-">> \o str_nat(0 - n) ELSE str_nat(n)

\* sep.join(parts), the parts and the result being character sequences
RECURSIVE join(_, _)
join(sep, parts) ==
  IF parts = <<>> THEN <<>>
  ELSE IF Len(parts) = 1 THEN parts[1]
  ELSE parts[1] \o <<sep>> \o join(sep, Tail(parts))

\* s.split(sep)
RECURSIVE split(_, _)
split(cs, sep) ==
  LET hits == {i \in DOMAIN cs : cs[i] = sep}
  IN  IF hits = {} THEN <<cs>>
      ELSE LET i == CHOOSE h \in hits : \A k \in hits : h <= k
           IN  <<SubSeq(cs, 1, i - 1)>> \o split(SubSeq(cs, i + 1, Len(cs)), sep)

\* s.strip()
RECURSIVE strip(_)
strip(cs) ==
  IF cs # <<>> /\ cs[1] = " " THEN strip(Tail(cs))
  ELSE IF cs # <<>> /\ cs[Len(cs)] = " " THEN strip(SubSeq(cs, 1, Len(cs) - 1))
  ELSE cs

\* int(s) succeeds on an optional sign followed by digits
int_parses(cs) ==
  LET body == IF cs # <<>> /\ cs[1] \in {"-", "+"} THEN Tail(cs) ELSE cs
  IN  body # <<>> /\ \A i \in DOMAIN body : IsDigit(body[i])

int_value(cs) ==
  IF cs[1] = "-" THEN 0 - digits_value(Tail(cs))
  ELSE IF cs[1] = "+" THEN digits_value(Tail(cs))
  ELSE digits_value(cs)

\* itertools.combinations(items, r): the r-subsequences in lexicographic order
RECURSIVE combinations(_, _)
combinations(items, r) ==
  IF r = 0 THEN << <<>> >>
  ELSE IF Len(items) < r THEN <<>>
  ELSE LET with_head == combinations(Tail(items), r - 1)
       IN  [i \in 1..Len(with_head) |-> <<items[1]>> \o with_head[i]]
           \o combinations(Tail(items), r)

-----------------------------------------------------------------------------
(* The coordinate tables of adata.obsm, as sequences of rows *)

NObs == 2

MaxDims == 5

\* a table of NObs rows and d axes; coordinates are in thousandths
coordinate_table(d) == [r \in 1..NObs |-> [c \in 1..d |-> 1000 * (10 * r + c)]]

shape1(table) == Len(table[1])

\* table[:, comp] with an index tuple: numpy counts a negative index from the
\* end and raises IndexError outside [-d, d)
index_in_bounds(table, c) == (0 - shape1(table)) <= c /\ c < shape1(table)

take_columns(table, comp) ==
  LET d == shape1(table)
      col(c) == IF c < 0 THEN c + d + 1 ELSE c + 1
  IN  [r \in DOMAIN table |-> [k \in DOMAIN comp |-> table[r][col(comp[k])]]]

\* table[:, lo:hi] with a slice: the bounds are clipped to the table
slice_columns(table, lo, hi) ==
  LET d == shape1(table)
      first == IF lo > d THEN d ELSE lo
      last == IF hi > d THEN d ELSE hi
  IN  [r \in DOMAIN table |-> SubSeq(table[r], first + 1, last)]

\* np.multiply(points, scale_factor), the scale factor in thousandths
multiply(points, factor) ==
  [r \in DOMAIN points |-> [k \in DOMAIN points[r] |-> (points[r][k] * factor) \div 1000]]

-----------------------------------------------------------------------------
(* _get_data_points, lines 889-997 *)

Sequence(items) == [t |-> "sequence", items |-> items]

\* mutant: the index offset of the basis is not applied
parse_component_without_offset(cs, offset) ==
  LET pieces == split(cs, ",")
      stripped == [i \in DOMAIN pieces |-> strip(pieces[i])]
  IN  IF \A i \in DOMAIN stripped : int_parses(stripped[i])
      THEN [comp |-> [i \in DOMAIN stripped |-> int_value(stripped[i]) - 1],
            exc |-> NoExc]
      ELSE [comp |-> <<>>, exc |-> Exc("ValueError", "_get_data_points")]

\* mutant: the axis numbers are taken as zero-based
parse_component_zero_based(cs, offset) ==
  LET pieces == split(cs, ",")
      stripped == [i \in DOMAIN pieces |-> strip(pieces[i])]
  IN  IF \A i \in DOMAIN stripped : int_parses(stripped[i])
      THEN [comp |-> [i \in DOMAIN stripped |-> int_value(stripped[i]) + offset],
            exc |-> NoExc]
      ELSE [comp |-> <<>>, exc |-> Exc("ValueError", "_get_data_points")]

\* lines 951 and 965: one 'a,b' string to a tuple of zero-based indices
parse_component(cs, offset) ==
  LET pieces == split(cs, ",")
      stripped == [i \in DOMAIN pieces |-> strip(pieces[i])]
  IN  IF \A i \in DOMAIN stripped : int_parses(stripped[i])
      THEN [comp |-> [i \in DOMAIN stripped |-> int_value(stripped[i]) - 1 + offset],
            exc |-> NoExc]
      ELSE [comp |-> <<>>, exc |-> Exc("ValueError", "_get_data_points")]

_get_data_points(p_obsm, basis, projection, p_components, p_scale_factor) ==
  LET Raise(e) == [ret |-> <<<<>>, <<>>>>, log |-> <<>>, exc |-> e]
      \* lines 908-917
      basis_key == IF basis \in DOMAIN p_obsm THEN basis
                   ELSE IF ("X_" \o basis) \in DOMAIN p_obsm THEN "X_" \o basis
                   ELSE "?"
  IN  IF basis_key = "?"
      THEN Raise(ExcListing("KeyError", "_get_data_points", DOMAIN p_obsm))
      ELSE
      LET table == p_obsm[basis_key]
          \* lines 919-929
          n_dims == IF projection = "3d" /\ shape1(table) # 2 THEN 3 ELSE 2
          log == IF projection = "3d" /\ shape1(table) = 2
                 THEN <<[level |-> "warning", what |-> "only two dimensions"]>>
                 ELSE <<>>
          \* lines 931-938
          r_value == IF projection = "3d" THEN 3 ELSE 2
          all == combinations([i \in 1..shape1(table) |-> i], r_value)
          components ==
            IF p_components = StrOf(<<"a", "l", "l">>)
            THEN Sequence([i \in DOMAIN all |->
                   StrOf(join(",", [k \in DOMAIN all[i] |-> str_int(all[i][k])]))])
            ELSE p_components
          \* lines 940-943
          offset == IF basis = "diffmap" THEN 1 ELSE 0
          RaiseLater(e) == [ret |-> <<<<>>, <<>>>>, log |-> log, exc |-> e]
          Scaled(points) ==
            \* lines 994-995
            IF p_scale_factor # None
            THEN [i \in DOMAIN points |->
                    IF i = 1 THEN multiply(points[1], p_scale_factor.v) ELSE points[i]]
            ELSE points
      IN  IF components # None
          THEN
            LET \* lines 948-972
                parsed ==
                  IF components.t = "str"
                  THEN LET c == parse_component(components.cs, offset)
                       IN  [list |-> <<c.comp>>, exc |-> c.exc]
                  ELSE IF components.t = "sequence"
                  THEN IF components.items = <<>>
                       THEN [list |-> <<>>, exc |-> Exc("IndexError", "_get_data_points")]
                       ELSE IF components.items[1].t = "int"
                       THEN [list |-> << [i \in DOMAIN components.items |->
                                            components.items[i].v - 1 + offset] >>,
                             exc |-> NoExc]
                       ELSE LET cs == [i \in DOMAIN components.items |->
                                         parse_component(components.items[i].cs, offset)]
                            IN  IF \E i \in DOMAIN cs : cs[i].exc # NoExc
                                THEN [list |-> <<>>,
                                      exc |-> Exc("ValueError", "_get_data_points")]
                                ELSE [list |-> [i \in DOMAIN cs |-> cs[i].comp],
                                      exc |-> NoExc]
                  ELSE [list |-> <<>>, exc |-> Exc("ValueError", "_get_data_points")]
                the_components_list == parsed.list
                \* lines 974-982
                present == \A i \in DOMAIN the_components_list :
                             \A k \in DOMAIN the_components_list[i] :
                               index_in_bounds(table, the_components_list[i][k])
                the_data_points == [i \in DOMAIN the_components_list |->
                                  take_columns(table, the_components_list[i])]
                \* lines 984-989
                reported == IF basis = "diffmap"
                            THEN [i \in DOMAIN the_components_list |->
                                    [k \in DOMAIN the_components_list[i] |->
                                       the_components_list[i][k] - 1]]
                            ELSE the_components_list
            IN  IF parsed.exc # NoExc THEN RaiseLater(parsed.exc)
                ELSE IF ~present THEN RaiseLater(Exc("ValueError", "_get_data_points"))
                ELSE [ret |-> <<Scaled(the_data_points), reported>>, log |-> log,
                      exc |-> NoExc]
          ELSE \* lines 990-992
            [ret |-> << Scaled(<<slice_columns(table, offset, offset + n_dims)>>), <<>> >>,
             log |-> log, exc |-> NoExc]

-----------------------------------------------------------------------------
(* embedding(): the coordinates of each panel, lines 165-198, 267, 299-389 *)

\* user axis numbers run over -MaxNegAxis..MaxAxisNumber
MaxNegAxis == 1

MaxAxisNumber == 4

\* how many 'a,b' strings a components list holds at most
MaxSelections == 2

AxisNumbers == (0 - MaxNegAxis)..MaxAxisNumber

AxisTuples == [1..2 -> AxisNumbers] \cup [1..3 -> AxisNumbers]

\* the pairs the strings of a components list are drawn from
AscendingPairs == {a \in [1..2 -> 1..MaxAxisNumber] : a[1] < a[2]}

component_string(axes) == StrOf(join(",", [k \in DOMAIN axes |-> str_int(axes[k])]))

\* None, 'all', 'a,b' and [a, b] with pairs or triples of any axis numbers,
\* and lists ['a,b', 'c,d'] of pairs
ComponentsArgs ==
  {None, StrOf(<<"a", "l", "l">>)}
  \cup { component_string(a) : a \in AxisTuples }
  \cup { Sequence([k \in DOMAIN a |-> PyInt(a[k])]) : a \in AxisTuples }
  \cup { Sequence([i \in DOMAIN s |-> component_string(s[i])]) :
           s \in UNION { [1..n -> AscendingPairs] : n \in 1..MaxSelections } }

BasisArgs == {"umap", "X_umap", "diffmap", "tsne"}

PointsIdle ==
  /\ obsm = EmptyMapping
  /\ points_args = None
  /\ data_points = <<>>
  /\ components_list = <<>>
  /\ component_idx = 0
  /\ drawn = <<>>
  /\ points_log = <<>>
  /\ points_pc = "idle"
  /\ points_exc = NoExc

PointsInit ==
  /\ \E d \in 1..MaxDims :
       obsm = [k \in {"X_umap", "X_diffmap"} |-> coordinate_table(d)]
  /\ points_args = None
  /\ data_points = <<>>
  /\ components_list = <<>>
  /\ component_idx = 0
  /\ drawn = <<>>
  /\ points_log = <<>>
  /\ points_pc = "idle"
  /\ points_exc = NoExc

points_call ==
  /\ points_pc = "idle"
  /\ \E a_basis \in BasisArgs, a_proj \in {"2d", "3d"}, a_comp \in ComponentsArgs,
        a_scale \in {None, Float(500)} :
       points_args' = [t |-> "args", basis |-> a_basis, projection |-> a_proj,
                       components |-> a_comp, scale_factor |-> a_scale]
  /\ points_pc' = "_get_data_points"
  /\ UNCHANGED <<obsm, data_points, components_list, component_idx, drawn,
                 points_log, points_exc>>
  /\ UNCHANGED notPoints

\* lines 167-169 and 186-194
embedding_get_data_points ==
  /\ points_pc = "_get_data_points"
  /\ LET r == _get_data_points(obsm, points_args.basis, points_args.projection,
                               points_args.components, points_args.scale_factor)
     IN  /\ points_exc' = r.exc
         /\ points_log' = points_log \o r.log
         /\ points_pc' = IF r.exc = NoExc THEN "draw" ELSE "raised"
         /\ data_points' = r.ret[1]
         /\ components_list' = IF Len(r.ret[2]) = 0 /\ r.exc = NoExc
                               THEN <<None>> ELSE r.ret[2]
  /\ component_idx' = 0
  /\ UNCHANGED <<obsm, points_args, drawn>>
  /\ UNCHANGED notPoints

\* one panel: its coordinates (line 267), the scatter call (lines 300-371)
\* and the axis labels (lines 379-392)
embedding_draw ==
  /\ points_pc = "draw"
  /\ component_idx < Len(components_list)
  /\ LET _data_points == data_points[component_idx + 1]
         width == shape1(_data_points)
         n_coords == IF points_args.projection = "3d" THEN 3 ELSE 2
         axis_numbers ==
           IF points_args.components # None
           THEN [k \in DOMAIN components_list[component_idx + 1] |->
                   components_list[component_idx + 1][k] + 1]
           ELSE [k \in 1..n_coords |-> k]
     IN  IF width < n_coords
         THEN \* _data_points[:, 1] or _data_points[:, 2] is out of bounds
              /\ points_exc' = Exc("IndexError", "embedding")
              /\ points_pc' = "raised"
              /\ UNCHANGED <<drawn, component_idx>>
         ELSE IF Len(axis_numbers) < n_coords
         THEN \* axis_labels[1] or axis_labels[2] is out of bounds
              /\ points_exc' = Exc("IndexError", "embedding")
              /\ points_pc' = "raised"
              /\ UNCHANGED <<drawn, component_idx>>
         ELSE /\ drawn' = Append(drawn,
                    [coords |-> [r \in DOMAIN _data_points |->
                                   SubSeq(_data_points[r], 1, n_coords)],
                     axis_numbers |-> axis_numbers])
              /\ component_idx' = component_idx + 1
              /\ UNCHANGED <<points_exc, points_pc>>
  /\ UNCHANGED <<obsm, points_args, data_points, components_list, points_log>>
  /\ UNCHANGED notPoints

\* lines 431-436: every panel is drawn
embedding_drawn ==
  /\ points_pc = "draw"
  /\ component_idx >= Len(components_list)
  /\ points_pc' = "done"
  /\ UNCHANGED <<obsm, points_args, data_points, components_list, component_idx,
                 drawn, points_log, points_exc>>
  /\ UNCHANGED notPoints

-----------------------------------------------------------------------------
(* The category palette, lines 1094-1106 *)

\* a display colour
Hex(name) == [t |-> "hex", name |-> name]

\* how many categories an annotation has at most
MaxCategories == 3

\* how many colours a cached or a given palette holds at most
MaxPalette == 3

CategoryLabels == <<"a", "b", "c", "d", "e">>

DefaultColors == <<"#1f77b4", "#ff7f0e", "#279e68", "#d62728", "#aa40fc">>

UserColors == <<"red", "green", "blue", "black", "white">>

Range(s) == { s[i] : i \in DOMAIN s }

\* _utils._set_default_colors_for_categorical_obs: a palette generated from
\* the number of categories, the same colours for the same number
_set_default_colors_for_categorical_obs(p_uns_colors, color_key, p_categories) ==
  [k \in DOMAIN p_uns_colors \cup {color_key} |->
     IF k = color_key
     THEN [i \in 1..Len(p_categories) |-> Hex(DefaultColors[i])]
     ELSE p_uns_colors[k]]

\* _utils._set_colors_for_categorical_obs: the given palette replaces the
\* cached one, one colour per category, cycling through a shorter palette
_set_colors_for_categorical_obs(p_uns_colors, color_key, p_categories, palette) ==
  [k \in DOMAIN p_uns_colors \cup {color_key} |->
     IF k = color_key
     THEN [i \in 1..Len(p_categories) |->
             palette.items[((i - 1) % Len(palette.items)) + 1]]
     ELSE p_uns_colors[k]]

\* _utils._validate_palette: the cached palette is kept
_validate_palette(p_uns_colors, color_key) == p_uns_colors

\* bool(palette): None and the empty list are false
truthy(palette) == palette # None /\ palette.items # <<>>

\* dict(zip(keys, values)): pairs up to the shorter of the two
dict_zip(keys, values) ==
  LET n == IF Len(keys) < Len(values) THEN Len(keys) ELSE Len(values)
  IN  [c \in { keys[i] : i \in 1..n } |->
         values[CHOOSE i \in 1..n : keys[i] = c]]

\* mutant: a cached palette is kept whatever its length
_get_palette_keeps_cached(p_uns_colors, p_categories, values_key, palette) ==
  LET color_key == values_key \o "_colors"
      called == IF truthy(palette) THEN "_set_colors_for_categorical_obs"
                ELSE IF color_key \notin DOMAIN p_uns_colors
                THEN "_set_default_colors_for_categorical_obs"
                ELSE "_validate_palette"
      new_uns ==
        IF called = "_set_colors_for_categorical_obs"
        THEN _set_colors_for_categorical_obs(p_uns_colors, color_key, p_categories, palette)
        ELSE IF called = "_set_default_colors_for_categorical_obs"
        THEN _set_default_colors_for_categorical_obs(p_uns_colors, color_key, p_categories)
        ELSE _validate_palette(p_uns_colors, color_key)
  IN  [ret |-> dict_zip(p_categories, new_uns[color_key]),
       uns_colors |-> new_uns, called |-> called]

\* _get_palette, lines 1094-1106: the mapping returned, adata.uns afterwards
\* and the function of _utils that was called
_get_palette(p_uns_colors, p_categories, values_key, palette) ==
  LET color_key == values_key \o "_colors"
      called == IF truthy(palette) THEN "_set_colors_for_categorical_obs"
                ELSE IF \/ color_key \notin DOMAIN p_uns_colors
                        \/ Len(p_uns_colors[color_key]) < Len(p_categories)
                THEN "_set_default_colors_for_categorical_obs"
                ELSE "_validate_palette"
      new_uns ==
        IF called = "_set_colors_for_categorical_obs"
        THEN _set_colors_for_categorical_obs(p_uns_colors, color_key, p_categories, palette)
        ELSE IF called = "_set_default_colors_for_categorical_obs"
        THEN _set_default_colors_for_categorical_obs(p_uns_colors, color_key, p_categories)
        ELSE _validate_palette(p_uns_colors, color_key)
  IN  [ret |-> dict_zip(p_categories, new_uns[color_key]),
       uns_colors |-> new_uns, called |-> called]

\* the palettes a caller gives: None, the empty list, or up to MaxPalette colours
PaletteArgs ==
  {None} \cup { Sequence([i \in 1..n |-> Hex(UserColors[i])]) : n \in 0..MaxPalette }

\* what adata.uns holds before the call: no palette for the annotation, or
\* one of up to MaxPalette colours left by an earlier plot
CachedPalettes ==
  {EmptyMapping}
  \cup { [k \in {"louvain_colors"} |-> [i \in 1..n |-> Hex(DefaultColors[i])]] :
           n \in 0..MaxPalette }

\* how often the palette of one annotation is resolved in a run
MaxResolutions == 2

PaletteIdle ==
  /\ categories = <<>>
  /\ uns_colors = EmptyMapping
  /\ palette_args = None
  /\ resolutions = <<>>
  /\ palette_pc = "idle"

PaletteInit ==
  /\ \E n \in 1..MaxCategories : categories = SubSeq(CategoryLabels, 1, n)
  /\ uns_colors \in CachedPalettes
  /\ palette_args = None
  /\ resolutions = <<>>
  /\ palette_pc = "idle"

\* _color_vector is called with the palette embedding() was given (line 251)
palette_call ==
  /\ palette_pc = "idle"
  /\ Len(resolutions) < MaxResolutions
  /\ \E a_palette \in PaletteArgs : palette_args' = a_palette
  /\ palette_pc' = "_get_palette"
  /\ UNCHANGED <<categories, uns_colors, resolutions>>
  /\ UNCHANGED notPalette

\* line 1130: color_map = _get_palette(adata, values_key, palette=palette)
color_vector_get_palette ==
  /\ palette_pc = "_get_palette"
  /\ LET r == _get_palette(uns_colors, categories, "louvain", palette_args)
     IN  /\ uns_colors' = r.uns_colors
         /\ resolutions' = Append(resolutions,
              [palette |-> palette_args, before |-> uns_colors,
               after |-> r.uns_colors, called |-> r.called, ret |-> r.ret])
  /\ palette_pc' = "idle"
  /\ UNCHANGED <<categories, palette_args>>
  /\ UNCHANGED notPalette

-----------------------------------------------------------------------------
(* embedding(): the scatter calls of each panel, lines 206-267 and 299-429 *)

\* a numpy array of one axis
array(items) == [t |-> "array", items |-> items]

\* a boolean as numpy sorts it: False before True
PyBool(b) == [t |-> "bool", v |-> IF b THEN 1 ELSE 0]

\* the values of a continuous annotation, in hundredths, and of a categorical one
ContinuousValues == {NaN, Float(100), Float(200)}

CategoricalValues == {NaN, Str("a"), Str("b")}

\* adata.n_obs
n_obs(p_obs) == Len(p_obs["gene1"])

\* _get_color_source_vector, lines 1064-1091, without gene symbols, raw and groups
_get_color_source_vector(adata, value_to_plot) ==
  IF value_to_plot = None
  THEN [i \in 1..n_obs(adata.obs) |-> NaN]
  ELSE adata.obs[value_to_plot.s]

\* _color_vector, lines 1109-1137: the colour vector, the categorical flag
\* and adata.uns afterwards
_color_vector(adata, values_key, values, palette, na_color) ==
  IF values_key = None
  THEN [ret |-> << [i \in 1..n_obs(adata.obs) |-> na_color], FALSE >>,
        uns_colors |-> adata.uns_colors]
  ELSE IF ~is_categorical_dtype(values_key.s)
  THEN [ret |-> <<values, FALSE>>, uns_colors |-> adata.uns_colors]
  ELSE LET color_map == _get_palette(adata.uns_colors, adata.categories,
                                     values_key.s, palette)
       IN  [ret |-> << [i \in DOMAIN values |->
                          IF isnan(values[i]) THEN na_color
                          ELSE color_map.ret[values[i].s]], TRUE >>,
            uns_colors |-> color_map.uns_colors]

\* -x of numpy
negative(x) == IF isnan(x) THEN NaN ELSE [x EXCEPT !.v = 0 - x.v]

\* the order of numpy's sorts: a nan sorts after every number
sorts_before(a, b) ==
  IF isnan(a) THEN FALSE ELSE IF isnan(b) THEN TRUE ELSE a.v < b.v

\* np.argsort(keys, kind="stable"): zero-based indices, equal keys in the
\* order they have in keys
argsort(keys) ==
  LET n == Len(keys)
      before(j, i) == \/ sorts_before(keys[j], keys[i])
                      \/ (~sorts_before(keys[i], keys[j]) /\ j < i)
      pos(i) == 1 + Cardinality({ j \in 1..n : j # i /\ before(j, i) })
  IN  [k \in 1..n |-> (CHOOSE i \in 1..n : pos(i) = k) - 1]

\* s[::-1]
reversed(s) == [k \in 1..Len(s) |-> s[Len(s) + 1 - k]]

\* v[order] with an index array, v[slice(None)] being v[identity]
take(v, order) == [k \in DOMAIN order |-> v[order[k] + 1]]

\* mutant: the stable sort of the negated values is not flipped
draw_order_not_flipped(sort_order, value_to_plot, categorical, color_vector, color_source_vector) ==
  IF sort_order = TRUE /\ value_to_plot # None /\ categorical = FALSE
  THEN argsort([i \in DOMAIN color_vector |-> negative(color_vector[i])])
  ELSE IF sort_order /\ categorical
  THEN argsort([i \in DOMAIN color_source_vector |->
                  PyBool(~isnan(color_source_vector[i]))])
  ELSE [k \in DOMAIN color_vector |-> k - 1]

\* mutant: the categorical sort puts the null points last
draw_order_nulls_on_top(sort_order, value_to_plot, categorical, color_vector, color_source_vector) ==
  IF sort_order = TRUE /\ value_to_plot # None /\ categorical = FALSE
  THEN reversed(argsort([i \in DOMAIN color_vector |-> negative(color_vector[i])]))
  ELSE IF sort_order /\ categorical
  THEN argsort([i \in DOMAIN color_source_vector |->
                  PyBool(isnan(color_source_vector[i]))])
  ELSE [k \in DOMAIN color_vector |-> k - 1]

\* lines 254-261: the order the points are drawn in, zero-based
draw_order(sort_order, value_to_plot, categorical, color_vector, color_source_vector) ==
  IF sort_order = TRUE /\ value_to_plot # None /\ categorical = FALSE
  THEN reversed(argsort([i \in DOMAIN color_vector |-> negative(color_vector[i])]))
  ELSE IF sort_order /\ categorical
  THEN argsort([i \in DOMAIN color_source_vector |->
                  PyBool(~isnan(color_source_vector[i]))])
  ELSE [k \in DOMAIN color_vector |-> k - 1]

\* the integer square root
RECURSIVE isqrt_between(_, _, _)
isqrt_between(n, lo, hi) ==
  IF lo >= hi THEN lo
  ELSE LET mid == (lo + hi + 1) \div 2
       IN  IF mid * mid <= n THEN isqrt_between(n, mid, hi)
           ELSE isqrt_between(n, lo, mid - 1)

\* np.sqrt of an area in hundredths, as a length in tenths
sqrt(x) == isqrt_between(x, 0, 46340)

\* mutant: the background ring is computed from the marker, not from the gap ring
ring_sizes_from_marker(s, bg_width, gap_width) ==
  LET point == sqrt(s)
      gap_size == (point + (point * gap_width * 2) \div 100) * (point + (point * gap_width * 2) \div 100)
      bg_size == (point + (point * bg_width * 2) \div 100) * (point + (point * bg_width * 2) \div 100)
  IN  [bg_size |-> bg_size, gap_size |-> gap_size]

\* lines 329-331 for one marker: areas in hundredths, widths in hundredths
ring_sizes(s, bg_width, gap_width) ==
  LET point == sqrt(s)
      gap_root == point + (point * gap_width * 2) \div 100
      gap_size == gap_root * gap_root
      bg_root == sqrt(gap_size) + (point * bg_width * 2) \div 100
      bg_size == bg_root * bg_root
  IN  [bg_size |-> bg_size, gap_size |-> gap_size]

\* lines 328-331 on a scalar size or on an array of sizes
outline_sizes(p_size, outline_width) ==
  LET rings(x) == ring_sizes(x.v, outline_width[1], outline_width[2])
  IN  IF p_size.t = "array"
      THEN [bg_size |-> array([i \in DOMAIN p_size.items |->
                                 Float(rings(p_size.items[i]).bg_size)]),
            gap_size |-> array([i \in DOMAIN p_size.items |->
                                  Float(rings(p_size.items[i]).gap_size)])]
      ELSE [bg_size |-> Float(rings(p_size).bg_size),
            gap_size |-> Float(rings(p_size).gap_size)]

\* a dict with one key set, and with one key removed
with_key(d, key, value) ==
  [k \in DOMAIN d \cup {key} |-> IF k = key THEN value ELSE d[k]]

without_key(d, key) == [k \in DOMAIN d \ {key} |-> d[k]]

\* mutant: the legend step is not skipped for the annotation None
legend_step_not_skipped(value_to_plot, categorical, panel) ==
  IF categorical
  THEN << [panel |-> panel, call |-> "_add_categorical_legend"] >>
  ELSE << [panel |-> panel, call |-> "colorbar"] >>

\* lines 400-429: the legend or colorbar call of one panel
legend_step(value_to_plot, categorical, panel) ==
  IF value_to_plot = None THEN <<>>
  ELSE IF categorical
  THEN << [panel |-> panel, call |-> "_add_categorical_legend"] >>
  ELSE << [panel |-> panel, call |-> "colorbar"] >>

-----------------------------------------------------------------------------
\* the annotations a panel is coloured by: None, a continuous and a categorical one
ColorArgs == {None, Str("gene1"), Str("louvain")}

\* the sizes a caller gives, in hundredths: None, one size, or one per point
SizeArgs ==
  {None, Float(400), Sequence([i \in 1..NObs |-> Float(100 * i * i)])}

\* (bg_width, gap_width) in hundredths: the default (0.3, 0.05) and its swap
OutlineWidthArgs == {<<30, 5>>, <<5, 30>>}

\* the keyword arguments a caller gives: none, or an edgecolor
KwargsArgs == { [k \in keys |-> Hex("black")] : keys \in SUBSET {"edgecolor"} }

\* line 219: size = 120000 / adata.shape[0], in hundredths
DefaultSizeNumerator == 12000000

\* to_hex(na_color) of the default na_color
na_color == Hex("lightgray")

\* the default outline_color (bg_color, gap_color)
outline_color == <<Hex("black"), Hex("white")>>

\* lines 126-132: kwargs before the loop
initial_kwargs(p_kwargs) ==
  IF "edgecolor" \notin DOMAIN p_kwargs
  THEN with_key(p_kwargs, "edgecolor", Hex("none"))
  ELSE p_kwargs

\* lines 206-221: size before the loop
initial_size(p_size, p_obs) ==
  IF p_size = None THEN Float(DefaultSizeNumerator \div n_obs(p_obs))
  ELSE IF p_size.t = "sequence" /\ Len(p_size.items) = n_obs(p_obs)
  THEN array(p_size.items)
  ELSE p_size

ScatterIdle ==
  /\ obs = EmptyMapping
  /\ scatter_args = None
  /\ size = None
  /\ kwargs = EmptyMapping
  /\ scatter_count = 0
  /\ scatter_calls = <<>>
  /\ legend_calls = <<>>
  /\ scatter_pc = "idle"

ScatterInit ==
  /\ \E gene1 \in [1..NObs -> ContinuousValues],
        louvain \in [1..NObs -> CategoricalValues] :
       obs = [k \in {"gene1", "louvain"} |-> IF k = "gene1" THEN gene1 ELSE louvain]
  /\ scatter_args = None
  /\ size = None
  /\ kwargs = EmptyMapping
  /\ scatter_count = 0
  /\ scatter_calls = <<>>
  /\ legend_calls = <<>>
  /\ scatter_pc = "idle"
  /\ categories = <<"a", "b">>
  /\ uns_colors = EmptyMapping
  /\ palette_args = None
  /\ resolutions = <<>>
  /\ palette_pc = "idle"

\* embedding() up to the loop, lines 126-132 and 206-234
scatter_call ==
  /\ scatter_pc = "idle"
  /\ \E a_color \in SeqsUpTo(ColorArgs, MaxColor), a_sort \in BOOLEAN,
        a_size \in SizeArgs, a_outline \in BOOLEAN,
        a_width \in OutlineWidthArgs, a_kwargs \in KwargsArgs :
       /\ (~a_outline => a_width = <<30, 5>>)
       /\ scatter_args' = [t |-> "args", color |-> a_color, sort_order |-> a_sort,
                           size |-> a_size, add_outline |-> a_outline,
                           outline_width |-> a_width, kwargs |-> a_kwargs,
                           palette |-> None]
       /\ size' = initial_size(a_size, obs)
       /\ kwargs' = initial_kwargs(a_kwargs)
  /\ scatter_count' = 0
  /\ scatter_pc' = "loop"
  /\ UNCHANGED <<obs, scatter_calls, legend_calls>>
  /\ UNCHANGED paletteVars
  /\ UNCHANGED notScatter

\* one pass of the loop of line 235, in the 2D projection with one selection
scatter_panel ==
  /\ scatter_pc = "loop"
  /\ scatter_count < Len(scatter_args.color)
  /\ LET adata == [obs |-> obs, uns_colors |-> uns_colors, categories |-> categories]
         value_to_plot == scatter_args.color[scatter_count + 1]
         \* lines 238-252
         color_source_vector == _get_color_source_vector(adata, value_to_plot)
         cv == _color_vector(adata, value_to_plot, color_source_vector,
                             scatter_args.palette, na_color)
         color_vector == cv.ret[1]
         categorical == cv.ret[2]
         \* lines 254-261
         order == draw_order(scatter_args.sort_order, value_to_plot, categorical,
                             color_vector, color_source_vector)
         \* lines 262-267
         ordered_size == IF size.t = "array" THEN array(take(size.items, order))
                         ELSE size
         ordered_source == take(color_source_vector, order)
         ordered_vector == take(color_vector, order)
         _data_points == take(coordinate_table(2), order)
         \* lines 328-362
         rings == outline_sizes(ordered_size, scatter_args.outline_width)
         alpha == IF "alpha" \in DOMAIN kwargs THEN kwargs["alpha"] ELSE None
         ring_kwargs == without_key(with_key(kwargs, "edgecolor", Hex("none")), "alpha")
         final_kwargs ==
           IF scatter_args.add_outline
           THEN with_key(ring_kwargs, "alpha", IF alpha = None THEN Float(70) ELSE alpha)
           ELSE kwargs
         ring_call(ring, s, c) ==
           [panel |-> scatter_count, ring |-> ring, order |-> order,
            x |-> _data_points, s |-> s, c |-> c, kwargs |-> ring_kwargs]
         ring_calls ==
           IF scatter_args.add_outline
           THEN << ring_call("bg", rings.bg_size, outline_color[1]),
                   ring_call("gap", rings.gap_size, outline_color[2]) >>
           ELSE <<>>
         \* lines 364-371
         cax == [panel |-> scatter_count, ring |-> "fg", order |-> order,
                 x |-> _data_points, s |-> ordered_size, c |-> ordered_vector,
                 kwargs |-> final_kwargs]
         \* lines 400-429
         legend == legend_step(value_to_plot, categorical, scatter_count)
     IN  /\ size' = ordered_size
         /\ kwargs' = final_kwargs
         /\ scatter_calls' = scatter_calls \o ring_calls \o <<cax>>
         /\ legend_calls' = legend_calls \o legend
         /\ uns_colors' =
              IF value_to_plot # None /\ categorical
              THEN _get_palette(cv.uns_colors, categories, value_to_plot.s, None).uns_colors
              ELSE cv.uns_colors
  /\ scatter_count' = scatter_count + 1
  /\ UNCHANGED <<obs, scatter_args, scatter_pc>>
  /\ UNCHANGED <<categories, palette_args, resolutions, palette_pc>>
  /\ UNCHANGED notScatter

\* lines 431-436: every panel is drawn
scatter_return ==
  /\ scatter_pc = "loop"
  /\ scatter_count >= Len(scatter_args.color)
  /\ scatter_pc' = "done"
  /\ UNCHANGED <<obs, scatter_args, size, kwargs, scatter_count, scatter_calls,
                 legend_calls>>
  /\ UNCHANGED paletteVars
  /\ UNCHANGED notScatter

-----------------------------------------------------------------------------
(* embedding(): the layout, lines 176-198, and _panel_grid, lines 439-463 *)

\* np.ceil(a / b) of two positive integers
ceil_divide(a, b) == (a \div b) + (IF a % b = 0 THEN 0 ELSE 1)

\* mutant: the number of rows is rounded down
_panel_grid_rounds_down(ncols, num_panels) ==
  LET n_panels_x == IF ncols < num_panels THEN ncols ELSE num_panels
  IN  [ncols |-> n_panels_x, nrows |-> num_panels \div n_panels_x]

\* _panel_grid, lines 439-463: the GridSpec's numbers of columns and rows
_panel_grid(ncols, num_panels) ==
  LET n_panels_x == IF ncols < num_panels THEN ncols ELSE num_panels
      n_panels_y == ceil_divide(num_panels, n_panels_x)
  IN  [ncols |-> n_panels_x, nrows |-> n_panels_y]

\* the requested number of columns runs over 1..MaxNcols
MaxNcols == 5

\* the component selections _get_data_points returned: none, one or more
ComponentsLists ==
  { [i \in 1..n |-> <<i - 1, i>>] : n \in 0..MaxComponents }

LayoutIdle ==
  /\ layout_args = None
  /\ grid = None
  /\ layout_pc = "idle"
  /\ layout_exc = NoExc

layout_call ==
  /\ layout_pc = "idle"
  /\ \E a_color \in SeqsUpTo(ColorArgs, MaxColor), a_list \in ComponentsLists,
        a_ncols \in 1..MaxNcols, a_ax \in {None, Str("ax")} :
       layout_args' = [t |-> "args", color |-> a_color, components_list |-> a_list,
                       ncols |-> a_ncols, ax |-> a_ax]
  /\ layout_pc' = "layout"
  /\ UNCHANGED <<grid, layout_exc>>
  /\ UNCHANGED notLayout

\* lines 176-198
embedding_layout ==
  /\ layout_pc = "layout"
  /\ IF Len(layout_args.color) > 1 \/ Len(layout_args.components_list) > 1
     THEN IF layout_args.ax # None
          THEN /\ layout_exc' = Exc("ValueError", "embedding")
               /\ layout_pc' = "raised"
               /\ UNCHANGED grid
          ELSE LET the_list == IF Len(layout_args.components_list) = 0
                               THEN <<None>> ELSE layout_args.components_list
                   num_panels == Len(layout_args.color) * Len(the_list)
               IN  IF num_panels = 0
                   THEN \* line 443 divides by min(ncols, 0)
                        /\ layout_exc' = Exc("ZeroDivisionError", "_panel_grid")
                        /\ layout_pc' = "raised"
                        /\ UNCHANGED grid
                   ELSE /\ grid' = _panel_grid(layout_args.ncols, num_panels)
                        /\ layout_pc' = "laid out"
                        /\ UNCHANGED layout_exc
     ELSE /\ grid' = None
          /\ layout_pc' = "laid out"
          /\ UNCHANGED layout_exc
  /\ UNCHANGED layout_args
  /\ UNCHANGED notLayout

-----------------------------------------------------------------------------
(* Specifications *)

SpatialIdle ==
  /\ uns = EmptyMapping
  /\ spatial_args = None
  /\ library_id = None
  /\ spatial_data = None
  /\ img = None
  /\ img_key = None
  /\ spot_size = None
  /\ scale_factor = None
  /\ spatial_pc = "idle"
  /\ spatial_exc = NoExc

OthersIdle == ScatterIdle /\ PaletteIdle /\ LayoutIdle

InitSpatial == SpatialInit /\ RangeIdle /\ PointsIdle /\ OthersIdle

SpatialNext ==
  \/ spatial_call
  \/ spatial_check_spatial_data
  \/ spatial_check_img
  \/ spatial_check_spot_size
  \/ spatial_check_scale_factor

\* spatial(): the resolver chain over every spatial metadata and argument
SpecSpatial == InitSpatial /\ [][SpatialNext]_vars

InitRange == RangeIdle /\ SpatialIdle /\ PointsIdle /\ OthersIdle

RangeNext ==
  \/ embedding_call
  \/ embedding_panel
  \/ embedding_return

\* embedding(): the panel loop with the range resolver
SpecRange == InitRange /\ [][RangeNext]_vars

InitPoints == PointsInit /\ SpatialIdle /\ RangeIdle /\ OthersIdle

PointsNext ==
  \/ points_call
  \/ embedding_get_data_points
  \/ embedding_draw
  \/ embedding_drawn

\* embedding(): the coordinate extractor and the draw step of each panel
SpecPoints == InitPoints /\ [][PointsNext]_vars

InitScatter == ScatterInit /\ SpatialIdle /\ RangeIdle /\ PointsIdle /\ LayoutIdle

ScatterNext ==
  \/ scatter_call
  \/ scatter_panel
  \/ scatter_return

\* embedding(): the scatter calls of each panel
SpecScatter == InitScatter /\ [][ScatterNext]_vars

InitPalette ==
  PaletteInit /\ SpatialIdle /\ RangeIdle /\ PointsIdle /\ ScatterIdle /\ LayoutIdle

PaletteNext ==
  \/ palette_call
  \/ color_vector_get_palette

\* _get_palette: repeated resolutions of the palette of one annotation
SpecPalette == InitPalette /\ [][PaletteNext]_vars

InitLayout ==
  LayoutIdle /\ SpatialIdle /\ RangeIdle /\ PointsIdle /\ ScatterIdle /\ PaletteIdle

LayoutNext ==
  \/ layout_call
  \/ embedding_layout

\* embedding(): the layout of the panels
SpecLayout == InitLayout /\ [][LayoutNext]_vars

-----------------------------------------------------------------------------
(* Properties of the spatial overlay resolvers *)

\* spatial() is past the call of resolver `f`: it returned or raised there,
\* or a later resolver did
raised_in(f) == spatial_pc = "raised" /\ spatial_exc.at = f

past_check_spatial_data == spatial_pc \notin {"idle", "_check_spatial_data"}

past_check_img ==
  past_check_spatial_data /\ spatial_pc # "_check_img"
  /\ ~raised_in("_check_spatial_data")

past_check_spot_size ==
  past_check_img /\ spatial_pc # "_check_spot_size" /\ ~raised_in("_check_img")

past_check_scale_factor ==
  past_check_spot_size /\ spatial_pc # "_check_scale_factor"
  /\ ~raised_in("_check_spot_size")

\* C7: over the whole resolver chain the resolved scale factor is the explicit
\* value if given, else the selected library's scale factor of the resolved
\* image key, else 1.0; and the scale factor resolution never fails (also with
\* an explicit image, spatial metadata present and no image key given).
C7_ScaleFactorResolution ==
  past_check_scale_factor =>
    /\ ~raised_in("_check_scale_factor")
    /\ scale_factor =
         IF spatial_args.scale_factor # None THEN spatial_args.scale_factor
         ELSE IF spatial_data # None /\ img_key.t = "str"
         THEN spatial_data.scalefactors["tissue_" \o img_key.s \o "_scalef"]
         ELSE Float(DefaultScaleFactor)

\* C8: an explicit image is always the one returned; with a library and no key
\* given the key defaults to 'hires', else 'lowres', and that image is
\* returned; when no image can be resolved the result is None and not a
\* failure; greyscale is applied only to a resolved image.
C8_ImageSelection ==
  past_check_img =>
    LET present == IF spatial_data # None THEN DOMAIN spatial_data.images ELSE {}
        bw == spatial_args.bw
        unresolvable ==
          /\ spatial_args.img = None
          /\ \/ spatial_data = None
             \/ spatial_args.img_key = None
             \/ spatial_args.img_key = _empty /\ present \cap {"hires", "lowres"} = {}
    IN  /\ spatial_args.img # None =>
             ~raised_in("_check_img") /\ img = ndarray(spatial_args.img.id, bw)
        /\ ( /\ spatial_args.img = None /\ spatial_data # None
             /\ spatial_args.img_key = _empty /\ present # {} ) =>
             /\ ~raised_in("_check_img")
             /\ img_key = Str(IF "hires" \in present THEN "hires" ELSE "lowres")
             /\ img = ndarray(spatial_data.images[img_key.s].id, bw)
        /\ unresolvable => ~raised_in("_check_img") /\ img = None

\* C9: with no library specified, exactly one library is auto-selected and its
\* metadata returned; zero libraries gives (None, None); two or more raise the
\* ambiguity error listing the libraries; an explicit library is never
\* overridden.
C9_LibrarySelection ==
  past_check_spatial_data =>
    LET spatial_mapping == get(uns, "spatial", EmptyMapping)
        libs == DOMAIN spatial_mapping
        unspecified == spatial_args.library_id = _empty
        ambiguous == raised_in("_check_spatial_data")
                       /\ spatial_exc.type = "ValueError"
    IN  /\ (unspecified /\ Cardinality(libs) = 1) =>
             /\ ~raised_in("_check_spatial_data")
             /\ \E l \in libs : library_id = Str(l) /\ spatial_data = spatial_mapping[l]
        /\ (unspecified /\ libs = {}) =>
             /\ ~raised_in("_check_spatial_data")
             /\ library_id = None /\ spatial_data = None
        /\ (unspecified /\ Cardinality(libs) >= 2) =>
             ambiguous /\ spatial_exc.info = libs
        /\ ~unspecified => ~ambiguous
        /\ (~unspecified /\ ~raised_in("_check_spatial_data")) =>
             library_id = spatial_args.library_id

\* C9 witness: two libraries and no library given: the ambiguity error
C9_Witness ==
  /\ raised_in("_check_spatial_data") /\ spatial_exc.type = "ValueError"
  /\ spatial_args.library_id = _empty
  /\ Cardinality(DOMAIN get(uns, "spatial", EmptyMapping)) = 2

\* C10: an explicit spot size is returned unchanged with or without metadata;
\* without one the metadata's spot diameter is returned; with neither the
\* mandatory-spot-size error is raised.
C10_SpotSizeResolution ==
  past_check_spot_size =>
    LET mandatory == raised_in("_check_spot_size") /\ spatial_exc.type = "ValueError"
    IN  /\ spatial_args.spot_size # None =>
             ~raised_in("_check_spot_size") /\ spot_size = spatial_args.spot_size
        /\ (spatial_args.spot_size = None /\ spatial_data # None) =>
             /\ ~raised_in("_check_spot_size")
             /\ spot_size = spatial_data.scalefactors["spot_diameter_fullres"]
        /\ (spatial_args.spot_size = None /\ spatial_data = None) => mandatory

\* C10 witness: no explicit spot size, the library's spot diameter is returned
C10_Witness ==
  /\ spatial_pc = "_check_scale_factor"
  /\ spatial_args.spot_size = None
  /\ spatial_data # None
  /\ spot_size = Float(89000)

-----------------------------------------------------------------------------
(* Properties of the range resolver in the panel loop *)

BoundNames == {"vmin", "vmax"}

bound_list(b) == IF b = "vmin" THEN vmin ELSE vmax

\* the panel index is past the end of a list that is not of length 1
past_end(b, index) == Len(bound_list(b)) # 1 /\ index >= Len(bound_list(b))

\* the bound of panel `index`: the only entry of a list of length 1, else the
\* entry at the panel index
chosen(b, index) ==
  IF Len(bound_list(b)) = 1 THEN bound_list(b)[1] ELSE bound_list(b)[index + 1]

\* the bound the panel was drawn with
resolved(p, b) == IF b = "vmin" THEN p.vmin ELSE p.vmax

reported(b, what, index) ==
  \E i \in DOMAIN logg : logg[i] = LogError(b, what, index)

\* embedding() ended with an exception raised while resolving bound b
raised_by(b) == emb_pc = "raised" /\ b \in emb_exc.info

\* the panels the range resolver ran for
ResolvedPanels == {i \in DOMAIN panels : ~panels[i].categorical}

is_percentile(x) == x.t = "str" /\ x.cs # <<>> /\ x.cs[1] = "p"

is_malformed_percentile(x) == is_percentile(x) /\ ~float_parses(Tail(x.cs))

is_literal(x) == x # None /\ ~is_percentile(x) /\ x.t # "callable"

is_number(x) ==
  \/ x.t \in {"int", "float"}
  \/ x.t = "str" /\ float_parses(x.cs)

is_finite_number(x) == x.t = "int" \/ (x.t = "float" /\ x.special = "finite")

\* C1: for vmin and vmax alike, a bound 'p' + an unparsable remainder is
\* reported, resolves to None, and the call returns without raising.
C1_MalformedPercentile ==
  \A b \in BoundNames :
    /\ ~( /\ raised_by(b)
          /\ ~past_end(b, count)
          /\ is_malformed_percentile(chosen(b, count)) )
    /\ \A i \in ResolvedPanels :
         LET p == panels[i]
         IN  (~past_end(b, p.count) /\ is_malformed_percentile(chosen(b, p.count)))
               => resolved(p, b) = None /\ reported(b, "percentile", p.count)

\* C2: a callable bound is invoked with the panel's color vector; the bound is
\* its result whenever that is a finite number (integer or real), and is
\* reported and None for every other result (non-number, NaN, infinite).
C2_CallableBound ==
  \A b \in BoundNames : \A i \in ResolvedPanels :
    LET p == panels[i]
    IN  (~past_end(b, p.count) /\ chosen(b, p.count).t = "callable") =>
          LET r == call(chosen(b, p.count).f, obs_vector(p.value_to_plot))
          IN  IF is_finite_number(r)
              THEN resolved(p, b) = r
              ELSE resolved(p, b) = None /\ reported(b, "function", p.count)

\* C3: a bound that is neither None, a percentile string nor a callable is
\* parsed as a number; whatever its type, an unparsable one is reported and
\* None, and the call does not raise.
C3_LiteralBound ==
  \A b \in BoundNames :
    /\ ~( /\ raised_by(b)
          /\ ~past_end(b, count)
          /\ is_literal(chosen(b, count)) )
    /\ \A i \in ResolvedPanels :
         LET p == panels[i]
             x == chosen(b, p.count)
         IN  (~past_end(b, p.count) /\ is_literal(x) /\ ~is_number(x))
               => resolved(p, b) = None /\ reported(b, "literal", p.count)

\* C4: the panel index is the position in the annotation-major enumeration of
\* annotations x component selections; a list of length 1 applies to every
\* panel and any other list is indexed by the panel index; an index past the
\* end is reported, gives None and never ends the call, so that a call that
\* does not raise draws every panel.
C4_BoundSelection ==
  /\ \A i \in DOMAIN panels :
       /\ panels[i].count = i - 1
       /\ panels[i].value_to_plot = color[((i - 1) \div n_components) + 1]
       /\ panels[i].component_idx = (i - 1) % n_components
  /\ emb_pc = "done" => Len(panels) = Len(color) * n_components
  /\ \A b \in BoundNames :
       /\ ~(raised_by(b) /\ past_end(b, count))
       /\ \A i \in ResolvedPanels :
            LET p == panels[i]
            IN  /\ past_end(b, p.count) =>
                     resolved(p, b) = None /\ reported(b, "index", p.count)
                /\ ( /\ ~past_end(b, p.count)
                     /\ chosen(b, p.count).t \in {"None", "int"} ) =>
                     resolved(p, b) = chosen(b, p.count)

\* C4 witness: two annotations x two selections with a vmin list of two: the
\* third panel's index is past the end, and all four panels are drawn
C4_Witness ==
  /\ emb_pc = "done"
  /\ Len(panels) = 4
  /\ color[1] # color[2]
  /\ vmin = <<PyInt(2), None>>
  /\ panels[1].vmin = PyInt(2)
  /\ ~panels[3].categorical
  /\ panels[3].vmin = None
  /\ reported("vmin", "index", 2)
  /\ Len(vmax) = 1
  /\ panels[4].vmax = PyInt(2)

-----------------------------------------------------------------------------
(* Properties of the coordinate extractor and the draw step *)

past_get_data_points == points_pc \notin {"idle", "_get_data_points"}

basis_found ==
  points_args.basis \in DOMAIN obsm \/ ("X_" \o points_args.basis) \in DOMAIN obsm

\* D: the number of axes of the coordinate table
n_axes == shape1(obsm["X_umap"])

basis_offset == IF points_args.basis = "diffmap" THEN 1 ELSE 0

axes_of_string(cs) ==
  LET pieces == split(cs, ",")
  IN  { int_value(strip(pieces[i])) : i \in DOMAIN pieces }

\* the 1-based axis numbers a component specification names
named_axes(components) ==
  IF components = None THEN {}
  ELSE IF components = StrOf(<<"a", "l", "l">>) THEN 1..n_axes
  ELSE IF components.t = "str" THEN axes_of_string(components.cs)
  ELSE IF components.items[1].t = "int"
  THEN { components.items[i].v : i \in DOMAIN components.items }
  ELSE UNION { axes_of_string(components.items[i].cs) : i \in DOMAIN components.items }

\* C5: a component specification naming an axis number that, with the basis
\* offset applied, is outside 1..D (0 and negative numbers included) makes the
\* call fail with a ValueError, and no coordinate slice is returned.
C5_OutOfRangeAxis ==
  ( /\ past_get_data_points
    /\ basis_found
    /\ \E a \in named_axes(points_args.components) :
         a + basis_offset \notin 1..n_axes )
  => /\ points_pc = "raised"
     /\ points_exc = Exc("ValueError", "_get_data_points")
     /\ data_points = <<>>

\* C6: a 3D projection on a table of fewer than 3 axes is not an error: the
\* extractor returns a slice of 2 axes and embedding() completes, every panel
\* drawn with two coordinates.  Stated for the table of exactly 2 axes, a
\* basis without index offset and the default component selection.
C6_3dOnFewerAxes ==
  ( /\ past_get_data_points
    /\ basis_found
    /\ basis_offset = 0
    /\ points_args.projection = "3d"
    /\ points_args.components = None
    /\ n_axes = 2 )
  => /\ points_pc # "raised"
     /\ \A i \in DOMAIN data_points : shape1(data_points[i]) = 2
     /\ \A i \in DOMAIN drawn : Len(drawn[i].coords[1]) = 2

-----------------------------------------------------------------------------
(* Properties of the scatter calls *)

in_loop == scatter_pc \in {"loop", "done"}

\* the calls that draw the points themselves, and those of the outline rings
FgCalls == { i \in DOMAIN scatter_calls : scatter_calls[i].ring = "fg" }

RingCalls == { i \in DOMAIN scatter_calls : scatter_calls[i].ring # "fg" }

annotation_of(a_call) == scatter_args.color[a_call.panel + 1]

is_continuous(value_to_plot) ==
  value_to_plot # None /\ ~is_categorical_dtype(value_to_plot.s)

is_categorical(value_to_plot) ==
  value_to_plot # None /\ is_categorical_dtype(value_to_plot.s)

\* the value of the point drawn at position k of a call
drawn_value(a_call, k) == obs[annotation_of(a_call).s][a_call.order[k] + 1]

SortedContinuousCalls ==
  { i \in FgCalls : scatter_args.sort_order /\ is_continuous(annotation_of(scatter_calls[i])) }

SortedCategoricalCalls ==
  { i \in FgCalls : scatter_args.sort_order /\ is_categorical(annotation_of(scatter_calls[i])) }

nulls_first(a_call) ==
  \A j, k \in DOMAIN a_call.order :
    (j < k /\ isnan(drawn_value(a_call, k))) => isnan(drawn_value(a_call, j))

lower_values_first(a_call) ==
  \A j, k \in DOMAIN a_call.order :
    (/\ ~isnan(drawn_value(a_call, j)) /\ ~isnan(drawn_value(a_call, k))
     /\ drawn_value(a_call, j).v < drawn_value(a_call, k).v) => j < k

has_tie(a_call) ==
  \E j, k \in DOMAIN a_call.order :
    j # k /\ ~isnan(drawn_value(a_call, j)) /\ drawn_value(a_call, j) = drawn_value(a_call, k)

is_permutation(order) ==
  /\ Len(order) = NObs
  /\ \A p \in 0..(NObs - 1) : \E k \in DOMAIN order : order[k] = p

is_identity(order) == \A k \in DOMAIN order : order[k] = k - 1

\* C11 as stated: a sorted continuous panel draws the null values first, every
\* value after all strictly lower ones, and points with equal values in their
\* original relative order
C11_ContinuousOrderTiesStable ==
  in_loop =>
    \A i \in SortedContinuousCalls :
      LET a_call == scatter_calls[i]
      IN  /\ nulls_first(a_call)
          /\ lower_values_first(a_call)
          /\ \A j, k \in DOMAIN a_call.order :
               (/\ j < k /\ ~isnan(drawn_value(a_call, j))
                /\ drawn_value(a_call, j) = drawn_value(a_call, k))
               => a_call.order[j] < a_call.order[k]

\* C11 amended: a sorted continuous panel draws the null values first, every
\* value after all strictly lower ones, and points with equal values in the
\* reverse of their original relative order
C11_ContinuousOrder ==
  in_loop =>
    \A i \in SortedContinuousCalls :
      LET a_call == scatter_calls[i]
      IN  /\ nulls_first(a_call)
          /\ lower_values_first(a_call)
          /\ \A j, k \in DOMAIN a_call.order :
               (/\ j < k /\ ~isnan(drawn_value(a_call, j))
                /\ drawn_value(a_call, j) = drawn_value(a_call, k))
               => a_call.order[j] > a_call.order[k]

\* a sorted continuous panel with two equal values was drawn, the later of
\* the two first
C11_Witness ==
  /\ scatter_pc = "done"
  /\ \E i \in SortedContinuousCalls :
       /\ has_tie(scatter_calls[i])
       /\ ~is_identity(scatter_calls[i].order)

\* np.argsort(order) of a permutation: its inverse
inverse(order) == [k \in DOMAIN order |-> (CHOOSE i \in DOMAIN order : order[i] = k - 1) - 1]

\* C12: the draw order of every panel is a permutation of 0..N-1; it is the
\* identity when sorting is off; for a sorted categorical panel the null points
\* come first and each of the two groups keeps its original order; the inverse
\* of the order restores the original sequence
C12_DrawOrderPermutation ==
  in_loop =>
    \A i \in FgCalls :
      LET a_call == scatter_calls[i]
      IN  /\ is_permutation(a_call.order)
          /\ (~scatter_args.sort_order => is_identity(a_call.order))
          /\ (i \in SortedCategoricalCalls =>
                /\ nulls_first(a_call)
                /\ \A j, k \in DOMAIN a_call.order :
                     (/\ j < k
                      /\ isnan(drawn_value(a_call, j)) = isnan(drawn_value(a_call, k)))
                     => a_call.order[j] < a_call.order[k])
          /\ take(a_call.x, inverse(a_call.order)) = coordinate_table(2)
          /\ take(take(obs["gene1"], a_call.order), inverse(a_call.order)) = obs["gene1"]

\* a sorted categorical panel moved a null point in front of a labelled one,
\* and a run without sorting drew a panel
C12_Witness ==
  /\ scatter_pc = "done"
  /\ \E i \in SortedCategoricalCalls :
       /\ ~is_identity(scatter_calls[i].order)
       /\ isnan(drawn_value(scatter_calls[i], 1))

\* the size, the coordinates and the colour of the annotation's vector that
\* belong to the samples in the order of the a_call
size_in_order(order) ==
  LET given == initial_size(scatter_args.size, obs)
  IN  IF given.t = "array" THEN array(take(given.items, order)) ELSE given

color_in_order(value_to_plot, order) ==
  LET adata == [obs |-> obs, uns_colors |-> uns_colors, categories |-> categories]
      source == _get_color_source_vector(adata, value_to_plot)
  IN  take(_color_vector(adata, value_to_plot, source, scatter_args.palette,
                         na_color).ret[1], order)

\* C13: in every panel the points are drawn with the coordinates, the size and
\* the colour of the same sample
C13_SameOrderEverywhere ==
  in_loop =>
    \A i \in FgCalls :
      LET a_call == scatter_calls[i]
      IN  /\ a_call.x = take(coordinate_table(2), a_call.order)
          /\ a_call.s = size_in_order(a_call.order)
          /\ a_call.c = color_in_order(annotation_of(a_call), a_call.order)

\* what kwargs['edgecolor'] is when the loop starts
edgecolor_given == initial_kwargs(scatter_args.kwargs)["edgecolor"]

\* C14: the outline rings are drawn without an edge colour, and the points of
\* an outlined panel, and whatever follows, with the edge colour in effect
\* before the rings
C14_EdgecolorRestored ==
  (in_loop /\ scatter_args.add_outline) =>
    /\ \A i \in RingCalls : scatter_calls[i].kwargs["edgecolor"] = Hex("none")
    /\ \A i \in FgCalls : scatter_calls[i].kwargs["edgecolor"] = edgecolor_given
    /\ kwargs["edgecolor"] = edgecolor_given

\* a > b on two sizes, element by element on arrays
larger(a, b) ==
  IF a.t = "array"
  THEN \A k \in DOMAIN a.items :
         a.items[k].v > (IF b.t = "array" THEN b.items[k].v ELSE b.v)
  ELSE a.v > b.v

ring_of(panel, ring) ==
  scatter_calls[CHOOSE i \in DOMAIN scatter_calls :
                  scatter_calls[i].panel = panel /\ scatter_calls[i].ring = ring]

\* C15: in every outlined panel the background ring is larger than the gap
\* ring, and the gap ring is larger than the marker
C15_RingSizes ==
  (in_loop /\ scatter_args.add_outline) =>
    \A p \in 0..(scatter_count - 1) :
      /\ larger(ring_of(p, "bg").s, ring_of(p, "gap").s)
      /\ larger(ring_of(p, "gap").s, ring_of(p, "fg").s)

\* an outlined panel was drawn with one size per point and with a background
\* width below the gap width
C15_Witness ==
  /\ scatter_pc = "done"
  /\ scatter_args.add_outline
  /\ scatter_count > 0
  /\ size.t = "array"
  /\ scatter_args.outline_width[1] < scatter_args.outline_width[2]
  /\ ring_of(0, "bg").s.t = "array"

legend_calls_of(panel) ==
  { i \in DOMAIN legend_calls : legend_calls[i].panel = panel }

\* C16: a panel of the annotation None gets no legend and no colorbar and N
\* points of the missing colour; every other panel gets exactly one a_call, the
\* legend for a categorical annotation and the colorbar for a continuous one
C16_LegendCalls ==
  in_loop =>
    \A p \in 0..(scatter_count - 1) :
      LET value_to_plot == scatter_args.color[p + 1]
          cax == ring_of(p, "fg")
      IN  IF value_to_plot = None
          THEN /\ legend_calls_of(p) = {}
               /\ Len(cax.c) = NObs
               /\ \A k \in DOMAIN cax.c : cax.c[k] = na_color
          ELSE /\ Cardinality(legend_calls_of(p)) = 1
               /\ \A i \in legend_calls_of(p) :
                    legend_calls[i].call =
                      IF is_categorical(value_to_plot) THEN "_add_categorical_legend"
                      ELSE "colorbar"

\* a run drew a panel of the annotation None and a panel of another annotation
C16_Witness ==
  /\ scatter_pc = "done"
  /\ \E p, q \in 0..(scatter_count - 1) :
       /\ scatter_args.color[p + 1] = None
       /\ scatter_args.color[q + 1] # None
       /\ legend_calls_of(p) = {}
       /\ legend_calls_of(q) # {}

-----------------------------------------------------------------------------
(* Properties of the layout *)

\* len(color) * len(components_list), an empty components_list counting as one
panel_count ==
  Len(layout_args.color) *
    (IF Len(layout_args.components_list) = 0 THEN 1
     ELSE Len(layout_args.components_list))

\* C17: the grid has min(requested, total) columns and ceil(total / columns)
\* rows, so rows * columns >= total > (rows - 1) * columns; 2 annotations and
\* 2 component selections with ncols = 4 give 1 row of 4 columns
C17_PanelGrid ==
  (layout_pc = "laid out" /\ grid # None) =>
    /\ panel_count >= 1
    /\ grid.ncols = (IF layout_args.ncols < panel_count THEN layout_args.ncols
                     ELSE panel_count)
    /\ grid.nrows * grid.ncols >= panel_count
    /\ (grid.nrows - 1) * grid.ncols < panel_count
    /\ ( ( /\ Len(layout_args.color) = 2
           /\ Len(layout_args.components_list) = 2
           /\ layout_args.ncols = 4 )
         => grid = [ncols |-> 4, nrows |-> 1] )

\* 2 annotations and 2 component selections were laid out in 3 columns: the
\* grid has a second row
C17_Witness ==
  /\ layout_pc = "laid out"
  /\ Len(layout_args.color) = 2
  /\ Len(layout_args.components_list) = 2
  /\ layout_args.ncols = 3
  /\ grid = [ncols |-> 3, nrows |-> 2]

-----------------------------------------------------------------------------
(* Properties of the component selections *)

\* _get_data_points returned
extractor_returned ==
  /\ past_get_data_points
  /\ ~(points_pc = "raised" /\ points_exc.at = "_get_data_points")

all_components == StrOf(<<"a", "l", "l">>)

\* the zero-based axes the string 'a,b' names: (a - 1, b - 1)
zero_based(cs) ==
  LET pieces == split(cs, ",")
  IN  [k \in DOMAIN pieces |-> int_value(strip(pieces[k])) - 1]

\* C18: 'a,b' gives the one selection (a-1, b-1); a list of ints gives one
\* selection, each entry less 1; a list of k strings gives k selections in the
\* given order; there are as many coordinate slices as selections
C18_ComponentParsing ==
  ( /\ extractor_returned
    /\ points_args.components # None
    /\ points_args.components # all_components )
  => LET components == points_args.components
     IN  /\ Len(data_points) = Len(components_list)
         /\ IF components.t = "str"
            THEN components_list = << zero_based(components.cs) >>
            ELSE IF components.items[1].t = "int"
            THEN components_list =
                   << [k \in DOMAIN components.items |-> components.items[k].v - 1] >>
            ELSE /\ Len(components_list) = Len(components.items)
                 /\ \A i \in DOMAIN components.items :
                      components_list[i] = zero_based(components.items[i].cs)

\* '2,3' was parsed on a table of 5 axes and its panel drawn
C18_Witness ==
  /\ points_pc = "done"
  /\ points_args.components = StrOf(<<"2", ",", "3">>)
  /\ n_axes = 5
  /\ components_list = << <<1, 2>> >>
  /\ Len(data_points) = 1

\* C19: 'all' gives every combination of r axes out of 1..D in ascending
\* order, zero-based, as many slices, and the call succeeds, for every basis.
\* Stated for the tables that have r axes or more.
C19_AllComponents ==
  ( /\ past_get_data_points
    /\ basis_found
    /\ points_args.components = all_components
    /\ n_axes >= (IF points_args.projection = "3d" THEN 3 ELSE 2) )
  => LET r_value == IF points_args.projection = "3d" THEN 3 ELSE 2
         expected == combinations([i \in 1..n_axes |-> i - 1], r_value)
     IN  /\ extractor_returned
         /\ components_list = expected
         /\ Len(data_points) = Len(expected)

-----------------------------------------------------------------------------
(* Properties of the category palette *)

color_key_of_louvain == "louvain_colors"

cached_too_short(p_uns_colors) ==
  \/ color_key_of_louvain \notin DOMAIN p_uns_colors
  \/ Len(p_uns_colors[color_key_of_louvain]) < Len(categories)

covers_categories(r) ==
  /\ Len(r.after[color_key_of_louvain]) >= Len(categories)
  /\ DOMAIN r.ret = Range(categories)

same_again ==
  \A i \in DOMAIN resolutions :
    ( /\ i > 1
      /\ \/ resolutions[i].palette = resolutions[i - 1].palette
         \/ ~truthy(resolutions[i].palette) )
    => resolutions[i].ret = resolutions[i - 1].ret

\* C20 as stated: after a resolution the cached palette covers the categories;
\* a default palette is generated exactly when none is cached or the cached
\* one is too short; resolving again returns the same mapping
C20_DefaultWheneverTooShort ==
  /\ \A i \in DOMAIN resolutions :
       /\ covers_categories(resolutions[i])
       /\ (resolutions[i].called = "_set_default_colors_for_categorical_obs")
            <=> cached_too_short(resolutions[i].before)
  /\ same_again

\* C20 amended: after a resolution the cached palette covers the categories;
\* when the caller gives no palette a default one is generated exactly when
\* none is cached or the cached one is too short, and when the caller gives
\* one it is cached and no default is generated; resolving again returns the
\* same mapping
C20_PaletteResolution ==
  /\ \A i \in DOMAIN resolutions :
       /\ covers_categories(resolutions[i])
       /\ IF truthy(resolutions[i].palette)
          THEN resolutions[i].called = "_set_colors_for_categorical_obs"
          ELSE (resolutions[i].called = "_set_default_colors_for_categorical_obs")
                 <=> cached_too_short(resolutions[i].before)
  /\ same_again

\* a palette shorter than the categories was cached, the resolution replaced
\* it by a default one, and a second resolution returned the same mapping
C20_Witness ==
  /\ Len(resolutions) = 2
  /\ color_key_of_louvain \in DOMAIN resolutions[1].before
  /\ cached_too_short(resolutions[1].before)
  /\ resolutions[1].called = "_set_default_colors_for_categorical_obs"
  /\ resolutions[2].called = "_validate_palette"
  /\ resolutions[2].ret = resolutions[1].ret

-----------------------------------------------------------------------------
(* Properties of the index offset and of the scale factor *)

\* the coordinate table the basis names
stored_table ==
  IF points_args.basis \in DOMAIN obsm THEN obsm[points_args.basis]
  ELSE obsm["X_" \o points_args.basis]

\* the 1-based axis numbers of a component specification, one tuple per selection
user_axes(components) ==
  IF components.t = "str"
  THEN << [k \in DOMAIN zero_based(components.cs) |-> zero_based(components.cs)[k] + 1] >>
  ELSE IF components.items[1].t = "int"
  THEN << [k \in DOMAIN components.items |-> components.items[k].v] >>
  ELSE [i \in DOMAIN components.items |->
          [k \in DOMAIN zero_based(components.items[i].cs) |->
             zero_based(components.items[i].cs)[k] + 1]]

\* a coordinate of a slice is the stored one, or the stored one times the
\* scale factor the call was given
is_stored(x, stored) ==
  \/ x = stored
  \/ /\ points_args.scale_factor # None
     /\ x = (stored * points_args.scale_factor.v) \div 1000

\* the number of axes of the default slice
default_n_dims == IF points_args.projection = "3d" /\ n_axes # 2 THEN 3 ELSE 2

\* C21: on the basis 'diffmap' a component specification of axis numbers in
\* 1..D-1 takes, for the user's axis a, the stored column after the a-th one
\* (zero-based index a), reports the selection (a - 1) and labels the axis a;
\* without a specification the slice holds the stored columns of zero-based
\* index 1 up to 1 + n_dims, as far as the table has them
C21_DiffmapOffset ==
  (extractor_returned /\ points_args.basis = "diffmap") =>
    LET components == points_args.components
    IN  IF components = None
        THEN /\ Len(data_points) = 1
             /\ \A r \in DOMAIN data_points[1] :
                  /\ Len(data_points[1][r]) =
                       (IF n_axes - 1 < default_n_dims THEN n_axes - 1
                        ELSE default_n_dims)
                  /\ \A k \in DOMAIN data_points[1][r] :
                       is_stored(data_points[1][r][k], stored_table[r][k + 1])
        ELSE IF components = all_components THEN TRUE
        ELSE LET axes == user_axes(components)
             IN  (\A i \in DOMAIN axes : \A k \in DOMAIN axes[i] :
                    axes[i][k] \in 1..(n_axes - 1))
                 => /\ Len(data_points) = Len(axes)
                    /\ \A i \in DOMAIN axes :
                         /\ components_list[i] = [k \in DOMAIN axes[i] |-> axes[i][k] - 1]
                         /\ \A r \in DOMAIN data_points[i] : \A k \in DOMAIN axes[i] :
                              is_stored(data_points[i][r][k],
                                        stored_table[r][axes[i][k] + 1])
                    /\ \A p \in DOMAIN drawn : drawn[p].axis_numbers = axes[p]

\* components '1,2' on 'diffmap' with 3 stored axes: the slice holds the
\* second and the third stored column and the panel is labelled 1, 2
C21_Witness ==
  /\ points_pc = "done"
  /\ points_args.basis = "diffmap"
  /\ points_args.components = StrOf(<<"1", ",", "2">>)
  /\ points_args.scale_factor = None
  /\ n_axes = 3
  /\ components_list = << <<0, 1>> >>
  /\ data_points[1][1] = <<stored_table[1][2], stored_table[1][3]>>
  /\ Len(drawn) = 1
  /\ drawn[1].axis_numbers = <<1, 2>>

\* C22: with a scale factor and a component specification every returned
\* slice is the stored coordinates of its selection times the scale factor,
\* and the stored table is unchanged
C22_ScaleEverySlice ==
  ( /\ extractor_returned
    /\ points_args.scale_factor # None
    /\ points_args.components # None )
  => /\ \A i \in DOMAIN data_points :
          data_points[i] =
            multiply(take_columns(stored_table,
                                  [k \in DOMAIN components_list[i] |->
                                     components_list[i][k] + basis_offset]),
                     points_args.scale_factor.v)
     /\ \A key \in DOMAIN obsm : obsm[key] = coordinate_table(n_axes)

====
